---- MODULE Spec2Model ----
(***************************************************************************)
(* hypermind: the gossip node of server.js (identity, registry seenPeers,  *)
(* handleMessage, relayMessage, the heartbeat tick and the socket          *)
(* handlers) and the PoW primitives of src/core.                           *)
(*                                                                         *)
(* Abstractions.  SHA-256 is a table `digest` from (id, nonce) to the      *)
(* first four hex characters of the hash, fixed when the run starts.  An   *)
(* Ed25519 signature is the pair (signer, signed sequence number): only    *)
(* the holder of a key can make one, anybody can replay one that was       *)
(* written to a socket.  A public key object is named by the id it was     *)
(* built from.  Time is Date.now() in milliseconds; the clock is read      *)
(* once per TimeStep, which is long enough for the interval timer to be    *)
(* due and for a record that was not refreshed to be stale.  Inbound       *)
(* HEARTBEATs carry the id of a peer (the node's own HEARTBEATs are not    *)
(* echoed back to it); an inbound LEAVE may name any id, the node's own    *)
(* included.  The location payload (loc) and the dashboard are left out:   *)
(* no decision of the handlers reads them.                                 *)
(*                                                                         *)
(* Discovery (src/discovery).  The Feistel generator is computed on the    *)
(* bits of full 32-bit words; HKDF is a fixed table of the seed.  A probe  *)
(* of scanIPv4Space is named by its attempt number; SCAN_CONCURRENCY is    *)
(* scaled down.  A read of a socket is the sequence of its lines.          *)
(***************************************************************************)
EXTENDS Integers, Sequences, FiniteSets, TLC

\* ------------------------------------------------------------ bounds
MaxSeq == 1
MaxAdvances == 1
MaxHops == 3
MaxNonce == 2
MaxQuanta == 9
MaxSignals == 2
MaxIndex == 257
MaxTwin == 3
MaxSeed == 1
MaxLines == 2
MaxCached == 2
MaxSetting == 2
MaxCount == 2
MaxStat == 1
MaxLength == 2
MaxBytes == 4

\* --------------------------------------------------------- constants
MAX_PEERS == 2
MAX_RELAY_HOPS == 2
SCAN_CONCURRENCY == 2
MaxProbes == SCAN_CONCURRENCY + 2
PEER_TIMEOUT == 15000
BROADCAST_THROTTLE == 1000
DIAGNOSTICS_INTERVAL == 10000
DEFAULT_BOOTSTRAP_TIMEOUT == 10000
HEARTBEAT_INTERVAL == 5000
EXIT_GRACE == 500
\* The clock is sampled once per TimeStep: long enough for a record to go stale.
TimeStep == PEER_TIMEOUT + HEARTBEAT_INTERVAL
POW_PREFIX == <<"0", "0", "0", "0">>
MY_POW_PREFIX == POW_PREFIX
VERIFICATION_POW_PREFIX == POW_PREFIX

MY_ID == "me"
Peers == {"p1", "p2"}
Ids == Peers \cup {MY_ID}
Sockets == {"s1", "s2"}
None == "none"

\* feistel.js: the halves of an address, a word, a round key, the rounds
HalfBits == 16
WordBits == 2 * HalfBits
KeyBits == 2 * WordBits
FeistelRounds == 4
Generators == 1..2
Seeds == 0..MaxSeed

Seqs == 0..MaxSeq
Hops == 0..MaxHops
Nonces == 0..MaxNonce

\* The leading four hex characters a digest can have, as far as the prefix
\* test can tell them apart.
Heads == {<<"0", "0", "0", "0">>, <<"0", "0", "0", "1">>, <<"0", "0", "a", "0">>,
          <<"a", "0", "0", "0">>}

NoSig == [signer |-> None, seq |-> -1]
NoEvent == [kind |-> "init", outcome |-> None, sock |-> None, id |-> None, seq |-> -1,
            hops |-> -1, wasNew |-> FALSE, powOK |-> FALSE, sigOK |-> FALSE,
            byOwner |-> FALSE, refresh |-> FALSE]
NoSent == [to |-> {}, type |-> None, id |-> None, seq |-> -1, hops |-> -1,
           relay |-> FALSE, newline |-> TRUE]
NoMsg == [id |-> None, seq |-> -1, hops |-> -1, nonce |-> -1, sig |-> NoSig]
NoRead == [sock |-> None, lines |-> <<>>, handled |-> {}, head |-> NoMsg,
           partial |-> [s \in Sockets |-> NoMsg]]

VARIABLES
    digest,        \* SHA-256(id || nonce), its leading hex characters
    identity,      \* {id, nonce} of generateIdentity
    mining,        \* generateIdentity is still in its loop
    powChecked,    \* result of verifyPoW on the mined identity ("none" before)
    seenPeers,     \* the registry: a map id -> {seq, lastSeen, key}
    mySeq,         \* the local sequence counter
    connections,   \* swarm.connections
    peerId,        \* socket.peerId of each open socket
    now,           \* Date.now()
    lastTick,      \* when the interval timer last fired (its start, before)
    lastAccepted,  \* ghost: the seq of the last HEARTBEAT accepted from each id
    removedSince,  \* ghost: id's record was removed after its last acceptance
    signals,       \* termination signals handled so far
    leaveWrites,   \* how many LEAVEs handleShutdown wrote to each socket
    exitAt,        \* when the earliest exit timer is due (-1: none is set)
    exited,        \* process.exit was called
    last,          \* ghost: the event the last step handled
    sent,          \* ghost: what the last step wrote, and to which sockets
    read,          \* ghost: the last "data" event, its lines, those handled
    seed,          \* the seed both address generators were created from
    gen,           \* the address generators: currentIndex, what they emitted
    sweep,         \* scanIPv4Space: its probes, found, its position, its result
    boot,          \* bootstrapPeers: its configuration, position and result
    scanClock,     \* process.env.BOOTSTRAP_TIMEOUT, and the time since the sweep began
    hs,            \* validatePeerConnection: its socket, timers and promise
    sse,           \* SSEManager, the registry size it reports, the periodic timer
    stats,         \* DiagnosticsManager.stats, and its reset timer
    removed        \* what cleanupStalePeers returned last

vars == <<digest, identity, mining, powChecked, seenPeers, mySeq, connections, peerId, now,
          lastTick, lastAccepted, removedSince, signals, leaveWrites, exitAt, exited,
          last, sent, read, seed, gen, sweep, boot, scanClock, hs, sse, stats, removed>>
framingVars == <<read>>
serviceVars == <<scanClock, hs, sse, stats, removed>>
discoveryVars == <<seed, gen, sweep, boot, serviceVars>>
generatorVars == <<seed, gen>>
shutdownVars == <<signals, leaveWrites, exitAt, exited>>
identityVars == <<digest, identity, mining, powChecked>>
gossipVars == <<seenPeers, mySeq, connections, peerId, now, lastTick, lastAccepted,
                removedSince, last, sent>>

\* ------------------------------------------------------ PoW, signing
\* String.prototype.startsWith
StartsWith(h, p) == Len(p) <= Len(h) /\ SubSeq(h, 1, Len(p)) = p

\* crypto.createHash("sha256").update(id + nonce).digest("hex")
powHash(id, nonce) == digest[<<id, nonce>>]

\* src/core/security.js verifyPoW; server.js handleMessage step 1
verifyPoWNonceOnly(id, nonce) == nonce # 0
verifyPoW(id, nonce) ==
    IF nonce = 0 THEN FALSE
    ELSE StartsWith(powHash(id, nonce), VERIFICATION_POW_PREFIX)

\* The linear scan of generateIdentity from nonce n; -1 when no nonce of the
\* bounded range meets the prefix (the scan would still be running).
RECURSIVE scanNonce(_, _)
scanNonce(id, n) ==
    IF n > MaxNonce THEN -1
    ELSE IF StartsWith(powHash(id, n), MY_POW_PREFIX) THEN n
    ELSE scanNonce(id, n + 1)

generateIdentity == [id |-> MY_ID, nonce |-> scanNonce(MY_ID, 0)]

\* crypto.createPublicKey: the key object recovered from an id
createPublicKey(id) == id

\* crypto.sign(null, "seq:" + seq, privateKey) by the holder of id's key
signMessage(id, seq) == [signer |-> id, seq |-> seq]

\* crypto.verify(null, "seq:" + seq, key, sig)
verifySignatureAnySeq(seq, sig, key) == sig # NoSig /\ sig.signer = key
verifySignature(seq, sig, key) == sig # NoSig /\ sig.signer = key /\ sig.seq = seq

\* ------------------------------------------------------ the registry
Has(id) == id \in DOMAIN seenPeers
Size == Cardinality(DOMAIN seenPeers)
MapSet(m, id, rec) == [x \in DOMAIN m \cup {id} |-> IF x = id THEN rec ELSE m[x]]
MapDeleteNothing(m, id) == m
MapDelete(m, id) == [x \in DOMAIN m \ {id} |-> m[x]]

\* ------------------------------------------------------------- Init
\* The hash table of the gossip runs.  For a peer, nonce 0 and nonce 1 meet
\* the prefix and every other nonce does not; the node's own id first meets
\* it at nonce 1.
GossipDigest ==
    [p \in Ids \X Nonces |->
        IF p[2] = 1 \/ (p[2] = 0 /\ p[1] # MY_ID) THEN <<"0", "0", "0", "0">>
        ELSE IF p[2] = 0 THEN <<"0", "0", "0", "1">>
        ELSE <<"a", "0", "0", "0">>]

\* --------------------------------------- Feistel address generator
\* A 32-bit word is the sequence of its bits, most significant first; a
\* 16-bit half likewise.  An address is written <<high half, low half>>.
Bits(n, w) == [i \in 1..w |-> (n \div 2 ^ (w - i)) % 2]
RECURSIVE Val(_)
Val(b) == IF b = <<>> THEN 0 ELSE 2 * Val(SubSeq(b, 1, Len(b) - 1)) + b[Len(b)]

\* x ^ y
Xor(x, y) == [i \in 1..Len(x) |-> (x[i] + y[i]) % 2]
\* ((x << n) | (x >>> (32 - n))) >>> 0
Rotl(x, n) == [i \in 1..Len(x) |-> x[((i - 1 + n) % Len(x)) + 1]]

\* crypto.hkdfSync("sha256", seed, salt, info, 32): 256 bits fixed by the
\* seed.  HKDF itself is not computed; a table of bits stands for it.
hkdfSyncByCall(s) ==
    [n \in 1..(4 * KeyBits) |->
        ((n * n + (s + gen[1].currentIndex + 2 * gen[2].currentIndex) * n + n \div 3 + s) % 7) % 2]
hkdfSync(s) == [n \in 1..(4 * KeyBits) |-> ((n * n + s * n + n \div 3 + s) % 7) % 2]
deriveRoundKeys(s) ==
    [r \in 1..FeistelRounds |-> SubSeq(hkdfSync(s), (r - 1) * KeyBits + 1, r * KeyBits)]

\* feistelMix: XOR with k0, rotate left 7, XOR with k1, rotate left 13
feistelMix(x, key) ==
    LET k0 == SubSeq(key, 1, WordBits)
        k1 == SubSeq(key, WordBits + 1, 2 * WordBits)
    IN  Rotl(Xor(Rotl(Xor(x, k0), 7), k1), 13)

\* feistelRound, on the bits of address
feistelRound(address, roundKey) ==
    LET left == SubSeq(address, 1, HalfBits)
        right == SubSeq(address, HalfBits + 1, WordBits)
        rightExpanded == right \o right
        mixed == feistelMix(rightExpanded, roundKey)
        newLeft == Xor(right, SubSeq(mixed, HalfBits + 1, WordBits))
    IN  newLeft \o left

\* the four rounds of next(), applied to currentIndex
permuted(index, roundKeys) ==
    LET start == Bits(index \div 2 ^ HalfBits, HalfBits) \o Bits(index % 2 ^ HalfBits, HalfBits)
        r1 == feistelRound(start, roundKeys[1])
        r2 == feistelRound(r1, roundKeys[2])
        r3 == feistelRound(r2, roundKeys[3])
        r4 == feistelRound(r3, roundKeys[4])
    IN  <<Val(SubSeq(r4, 1, HalfBits)), Val(SubSeq(r4, HalfBits + 1, WordBits))>>

\* createFeistelGenerator(seed): currentIndex = 0.  out is what next() has
\* returned since the creation or the last reset(), replay what it had
\* returned before the last reset().
NewGenerator == [currentIndex |-> 0, out |-> <<>>, replay |-> <<>>]

\* ------------------------------------------------- scanIPv4Space
\* A probe is one pass of the spawn loop: a key of pendingPromises and of
\* pendingSockets, the tryConnectToPeer promise and its then/catch chain.
\* phase: idle (not spawned), connecting (TCP connect under way), validating
\* (validatePeerConnection under way), done (the chain has fulfilled).
\* sock is the entry of pendingSockets: none, the placeholder true, or the
\* connect socket.  value is what the chain fulfilled with: the probe's own
\* id for {ip, port}, 0 for null.  promise.resolved is assigned nowhere.
ProbeIds == 1..MaxProbes
NewProbe == [phase |-> "idle", settled |-> FALSE, pending |-> FALSE, sock |-> None,
             value |-> 0]

\* pc: loop (in the while loop, at its setImmediate), waiting (at
\* Promise.allSettled), returned.  result 0 is null.  firstValidated is a
\* ghost: the first probe whose validation succeeded before the deadline.
NewSweep == [probe |-> [p \in ProbeIds |-> NewProbe], found |-> FALSE, timedOut |-> FALSE,
             pc |-> "loop", result |-> 0, firstValidated |-> 0]

\* bootstrapPeers before it is called with a configuration
NewBoot(debugIp, debugValid, cached, scan) ==
    [pc |-> "start", BOOTSTRAP_PEER_IP |-> debugIp, debugValid |-> debugValid,
     cached |-> cached, ENABLE_IPV4_SCAN |-> scan, ran |-> <<>>, result |-> "pending",
     peer |-> 0]

\* ----------------------------------------- probe, dashboard, counters
\* process.env.BOOTSTRAP_TIMEOUT: Unset, or the integer the variable spells
Unset == -1
NewScanClock(setting) == [setting |-> setting, elapsed |-> 0]

\* validatePeerConnection at net.createConnection.  phase: connecting, open
\* (the connect callback ran), closed.  responseTimer: the setTimeout of
\* the connect callback is armed.  resolved: the promise, pending until the
\* first resolve().  line: the line that made the handler resolve (ghost).
NoLine == [kind |-> None, msg |-> NoMsg]
NewHandshake == [phase |-> "connecting", responseTimer |-> FALSE, resolved |-> "pending",
                 clock |-> 0, line |-> NoLine, event |-> None]

\* SSEManager after construction, long after the epoch: since is
\* Date.now() - lastBroadcast, kept up to BROADCAST_THROTTLE.  count is the
\* registry size, snapshot the count of the last message written to the
\* clients (-1: none yet), periodic the time until main's interval fires.
\* call is a ghost: the last broadcastUpdate call.
NoCall == [by |-> None, force |-> FALSE, pushed |-> FALSE, late |-> FALSE]
NewSse == [since |-> BROADCAST_THROTTLE, count |-> 1, snapshot |-> -1,
           periodic |-> DIAGNOSTICS_INTERVAL, call |-> NoCall]

\* DiagnosticsManager: the counters of the window in progress.  ended is a
\* ghost, the totals of the window that the last reset() closed; due is the
\* time until the reset interval fires; read is what getStats returned last.
NoCleanup == [count |-> 0, at |-> -1]
NoStats == [heartbeatsReceived |-> 0, bytesRelayed |-> 0]
NewDiagnostics == [cur |-> NoStats, ended |-> NoStats, due |-> DIAGNOSTICS_INTERVAL,
                   read |-> NoStats, fresh |-> FALSE, len |-> 0]

InitService ==
    /\ scanClock = NewScanClock(Unset)
    /\ hs = NewHandshake
    /\ sse = NewSse
    /\ stats = NewDiagnostics
    /\ removed = NoCleanup

InitScan ==
    /\ sweep = NewSweep
    /\ boot = NewBoot(FALSE, FALSE, <<>>, FALSE)
    /\ InitService

InitDiscovery ==
    /\ seed = 0
    /\ gen = [g \in Generators |-> NewGenerator]
    /\ InitScan

InitGossip ==
    /\ seenPeers = [x \in {MY_ID} |-> [seq |-> 0, lastSeen |-> 0, key |-> None]]
    /\ mySeq = 0
    /\ connections = {}
    /\ peerId = [s \in Sockets |-> None]
    /\ now = 0
    /\ lastTick = 0
    /\ lastAccepted = [i \in Ids |-> -1]
    /\ removedSince = [i \in Ids |-> FALSE]
    /\ signals = 0
    /\ leaveWrites = [s \in Sockets |-> 0]
    /\ exitAt = -1
    /\ exited = FALSE
    /\ last = NoEvent
    /\ sent = NoSent
    /\ read = NoRead

Init ==
    /\ digest = GossipDigest
    /\ identity = generateIdentity
    /\ mining = FALSE
    /\ powChecked = None
    /\ InitGossip
    /\ InitDiscovery

\* --------------------------------------------------------- messages
\* The signatures the network can attach to a HEARTBEAT naming (id, seq) of a
\* peer: none, the peer's signature of exactly that seq, the peer's signature
\* of another seq (a replay), and another peer's signature of that seq.
SigsFor(id, seq) ==
    {NoSig, signMessage(id, seq), signMessage(id, (seq + 1) % (MaxSeq + 1)),
     signMessage(CHOOSE p \in Peers : p # id, seq)}

Heartbeat(id, seq, hops, nonce, sig) ==
    [id |-> id, seq |-> seq, hops |-> hops, nonce |-> nonce, sig |-> sig]

\* origin: the peer that made the message (LEAVE carries no signature)
Leaves == [id : Ids, hops : Hops, origin : Peers]

\* What the message itself is worth, whatever the handler decides.
GenuineSig(m) == m.sig = signMessage(m.id, m.seq)
PowHolds(m) == StartsWith(powHash(m.id, m.nonce), POW_PREFIX)

Event(kind, outcome, s, id, seq) ==
    [kind |-> kind, outcome |-> outcome, sock |-> s, id |-> id, seq |-> seq,
     hops |-> -1, wasNew |-> FALSE, powOK |-> FALSE, sigOK |-> FALSE,
     byOwner |-> FALSE, refresh |-> FALSE]

\* ------------------------------------------------------------ relay
\* relayMessage: every open connection except the source socket
relayTargetsAll(sourceSocket) == connections
relayTargets(sourceSocket) == {socket \in connections : socket # sourceSocket}

\* the hop test of handleMessage, for HEARTBEAT and LEAVE alike
shouldRelayFirstHopOnly(hops) == hops < 1
shouldRelay(hops) == hops < 3

Relayed(type, m, seq, sourceSocket) ==
    [to |-> relayTargets(sourceSocket), type |-> type, id |-> m.id, seq |-> seq,
     hops |-> m.hops + 1, relay |-> TRUE, newline |-> TRUE]

\* ------------------------------------------- handleMessage, HEARTBEAT
\* step 2: drop old and duplicate sequence numbers before the verify
isDuplicateStrict(m) == Has(m.id) /\ m.seq < seenPeers[m.id].seq
isDuplicateNever(m) == FALSE
isDuplicate(m) == Has(m.id) /\ m.seq <= seenPeers[m.id].seq

\* the cached key of a stored record, else the key rebuilt from the id
hasCachedKey(id) == Has(id) /\ seenPeers[id].key # None
keyFor(id) == IF hasCachedKey(id) THEN seenPeers[id].key ELSE createPublicKey(id)

\* MAX_PEERS is enforced on the branch that builds a key, for a new id
isFullNever(id) == FALSE
isFull(id) == ~hasCachedKey(id) /\ ~Has(id) /\ Size >= MAX_PEERS

heartbeatOutcome(m) ==
    IF ~verifyPoW(m.id, m.nonce) THEN "invalidPoW"
    ELSE IF isDuplicate(m) THEN "duplicateSeq"
    ELSE IF m.sig = NoSig THEN "invalidSig"
    ELSE IF isFull(m.id) THEN "full"
    ELSE IF ~verifySignature(m.seq, m.sig, keyFor(m.id)) THEN "invalidSig"
    ELSE "admitted"

\* A dropped HEARTBEAT leaves no trace of its hop count: one stands for all.
HopsToTry(m) == IF heartbeatOutcome(m) = "admitted" THEN Hops ELSE {0}

\* The ghost event of a HEARTBEAT.  An admitted one is recorded in full; a
\* dropped one by its outcome alone, unless the run traces the drops too.
HeartbeatEvent(s, m, outcome, traced) ==
    IF outcome = "admitted" \/ traced
    THEN [Event("HEARTBEAT", outcome, s, m.id, m.seq) EXCEPT
            !.hops = m.hops, !.wasNew = ~Has(m.id), !.powOK = PowHolds(m),
            !.sigOK = GenuineSig(m),
            !.refresh = (outcome = "admitted" /\ ~Has(m.id))]
    ELSE Event("HEARTBEAT", outcome, None, None, -1)

Handle(s, m, traced) ==
    LET outcome == heartbeatOutcome(m)
    IN  /\ s \in connections
        /\ last' = HeartbeatEvent(s, m, outcome, traced)
        /\ IF outcome = "admitted"
           THEN /\ peerId' = IF m.hops = 0 THEN [peerId EXCEPT ![s] = m.id] ELSE peerId
                /\ seenPeers' = MapSet(seenPeers, m.id,
                                       [seq |-> m.seq, lastSeen |-> now, key |-> keyFor(m.id)])
                /\ lastAccepted' = [lastAccepted EXCEPT ![m.id] = m.seq]
                /\ removedSince' = [removedSince EXCEPT ![m.id] = FALSE]
                /\ sent' = IF shouldRelay(m.hops) THEN Relayed("HEARTBEAT", m, m.seq, s)
                           ELSE NoSent
           ELSE /\ sent' = NoSent
                /\ UNCHANGED <<peerId, seenPeers, lastAccepted, removedSince>>
        /\ UNCHANGED <<identityVars, shutdownVars, discoveryVars, mySeq, connections, now,
                       lastTick>>

HandleHeartbeat(s, m) == Handle(s, m, FALSE) /\ UNCHANGED framingVars
HandleHeartbeatTraced(s, m) == Handle(s, m, TRUE) /\ UNCHANGED framingVars

\* ----------------------------------------------- handleMessage, LEAVE
\* The ghost event of a LEAVE: one that removed a record is recorded in
\* full, one for an unknown id by its outcome alone unless the run traces it.
LeaveEvent(s, m, traced) ==
    IF Has(m.id)
    THEN [Event("LEAVE", "removed", s, m.id, -1) EXCEPT
            !.hops = m.hops, !.byOwner = (m.origin = m.id), !.refresh = TRUE]
    ELSE IF traced
    THEN [Event("LEAVE", "unknown", s, m.id, -1) EXCEPT !.hops = m.hops]
    ELSE Event("LEAVE", "unknown", None, None, -1)

Leave(s, m, traced) ==
    /\ s \in connections
    /\ last' = LeaveEvent(s, m, traced)
    /\ IF Has(m.id)
       THEN /\ seenPeers' = MapDelete(seenPeers, m.id)
            /\ removedSince' = [removedSince EXCEPT ![m.id] = TRUE]
            /\ sent' = IF shouldRelay(m.hops) THEN Relayed("LEAVE", m, -1, s) ELSE NoSent
       ELSE /\ sent' = NoSent
            /\ UNCHANGED <<seenPeers, removedSince>>
    /\ UNCHANGED <<identityVars, shutdownVars, framingVars, discoveryVars, mySeq, connections,
                   peerId, now, lastTick, lastAccepted>>

HandleLeave(s, m) == Leave(s, m, FALSE)
HandleLeaveTraced(s, m) == Leave(s, m, TRUE)

\* ------------------------------------------------- socket handlers
\* swarm.on("connection"): the hello, a HEARTBEAT with the current seq
Connect(s) ==
    /\ s \notin connections
    /\ connections' = connections \cup {s}
    /\ peerId' = [peerId EXCEPT ![s] = None]
    /\ sent' = [to |-> {s}, type |-> "HEARTBEAT", id |-> MY_ID, seq |-> mySeq,
                hops |-> 0, relay |-> FALSE, newline |-> FALSE]
    /\ last' = [Event("connect", None, s, None, -1) EXCEPT !.refresh = TRUE]
    /\ UNCHANGED <<identityVars, shutdownVars, framingVars, discoveryVars, seenPeers, mySeq,
                   now, lastTick, lastAccepted,
                   removedSince>>

\* socket.on("close")
Close(s) ==
    /\ s \in connections
    /\ connections' = connections \ {s}
    /\ peerId' = [peerId EXCEPT ![s] = None]
    /\ IF peerId[s] # None /\ Has(peerId[s])
       THEN /\ seenPeers' = MapDelete(seenPeers, peerId[s])
            /\ removedSince' = [removedSince EXCEPT ![peerId[s]] = TRUE]
            /\ last' = [Event("close", "removed", s, peerId[s], -1)
                          EXCEPT !.refresh = TRUE]
       ELSE /\ last' = [Event("close", None, s, None, -1) EXCEPT !.refresh = TRUE]
            /\ UNCHANGED <<seenPeers, removedSince>>
    /\ sent' = NoSent
    /\ UNCHANGED <<identityVars, shutdownVars, framingVars, discoveryVars, mySeq, now,
                   lastTick, lastAccepted>>

\* ---------------------------------------------------- heartbeat tick
isStaleLenient(rec, t) == t - rec.lastSeen > PEER_TIMEOUT + HEARTBEAT_INTERVAL
isStaleInclusive(rec, t) == t - rec.lastSeen >= PEER_TIMEOUT
isStale(rec, t) == t - rec.lastSeen > PEER_TIMEOUT

Tick ==
    /\ now - lastTick >= HEARTBEAT_INTERVAL
    /\ lastTick' = now
    /\ mySeq' = mySeq + 1
    /\ LET withSelf == MapSet(seenPeers, MY_ID,
                              [seq |-> mySeq + 1, lastSeen |-> now, key |-> None])
           stale == {id \in DOMAIN withSelf : isStale(withSelf[id], now)}
       IN  /\ seenPeers' = [id \in DOMAIN withSelf \ stale |-> withSelf[id]]
           /\ removedSince' = [id \in Ids |-> removedSince[id] \/ id \in stale]
           /\ last' = [Event("tick", IF stale = {} THEN None ELSE "removed",
                               None, None, -1) EXCEPT !.refresh = (stale # {})]
    /\ sent' = [to |-> connections, type |-> "HEARTBEAT", id |-> MY_ID,
                seq |-> mySeq + 1, hops |-> 0, relay |-> FALSE, newline |-> TRUE]
    /\ UNCHANGED <<identityVars, shutdownVars, framingVars, discoveryVars, connections,
                   peerId, now, lastAccepted>>

\* Date.now() moves on by d while the process does nothing
Advance(d) ==
    /\ now + d <= MaxAdvances * TimeStep
    /\ now' = now + d
    /\ last' = Event("advance", None, None, None, -1)
    /\ sent' = NoSent
    /\ UNCHANGED <<identityVars, shutdownVars, framingVars, discoveryVars, seenPeers, mySeq,
                   connections, peerId, lastTick,
                   lastAccepted, removedSince>>

Next ==
    \/ \E s \in Sockets : Connect(s)
    \/ \E s \in Sockets : Close(s)
    \/ \E s \in connections, id \in Peers, seq \in Seqs, nonce \in Nonces :
          \E sig \in SigsFor(id, seq) :
             \E hops \in HopsToTry(Heartbeat(id, seq, 0, nonce, sig)) :
                HandleHeartbeat(s, Heartbeat(id, seq, hops, nonce, sig))
    \/ \E s \in connections, m \in Leaves : HandleLeave(s, m)
    \/ Tick
    \/ Advance(TimeStep)

Spec == Init /\ [][Next]_vars

\* ------------------------------------------- copies of one HEARTBEAT
\* The same machine with every HEARTBEAT traced, dropped ones too, and no
\* removal of a record: connections open, HEARTBEATs arrive on them.
NextCopies ==
    \/ \E s \in Sockets : Connect(s)
    \/ \E s \in connections, id \in Peers, seq \in Seqs, nonce \in Nonces :
          \E sig \in SigsFor(id, seq) :
             \E hops \in HopsToTry(Heartbeat(id, seq, 0, nonce, sig)) :
                HandleHeartbeatTraced(s, Heartbeat(id, seq, hops, nonce, sig))

SpecCopies == Init /\ [][NextCopies]_vars

\* ----------------------------------------------------------- LEAVE
\* The node with every LEAVE traced: connections open, HEARTBEATs and LEAVEs
\* arrive on them, and a record leaves the registry through a LEAVE alone.
NextLeave ==
    \/ \E s \in Sockets : Connect(s)
    \/ \E s \in connections, id \in Peers, seq \in Seqs, nonce \in Nonces :
          \E sig \in SigsFor(id, seq) :
             \E hops \in HopsToTry(Heartbeat(id, seq, 0, nonce, sig)) :
                HandleHeartbeat(s, Heartbeat(id, seq, hops, nonce, sig))
    \/ \E s \in connections, m \in Leaves : HandleLeaveTraced(s, m)

SpecLeave == Init /\ [][NextLeave]_vars

\* -------------------------------------------------------- shutdown
\* handleShutdown, on SIGINT or SIGTERM: a LEAVE to every open connection
\* and a timer that exits the process EXIT_GRACE later
Signal ==
    /\ signals < MaxSignals
    /\ signals' = signals + 1
    /\ leaveWrites' = [s \in Sockets |->
                          IF s \in connections THEN leaveWrites[s] + 1 ELSE leaveWrites[s]]
    /\ exitAt' = IF exitAt = -1 THEN now + EXIT_GRACE ELSE exitAt
    /\ sent' = [to |-> connections, type |-> "LEAVE", id |-> MY_ID, seq |-> -1,
                hops |-> 0, relay |-> FALSE, newline |-> TRUE]
    /\ last' = Event("signal", None, None, None, -1)
    /\ UNCHANGED <<identityVars, framingVars, discoveryVars, seenPeers, mySeq, connections,
                   peerId, now, lastTick,
                   lastAccepted, removedSince, exited>>

\* the exit timer fires: process.exit(0)
Exit ==
    /\ exitAt # -1
    /\ now >= exitAt
    /\ exited' = TRUE
    /\ last' = Event("exit", "0", None, None, -1)
    /\ sent' = NoSent
    /\ UNCHANGED <<identityVars, framingVars, discoveryVars, seenPeers, mySeq, connections,
                   peerId, now, lastTick,
                   lastAccepted, removedSince, signals, leaveWrites, exitAt>>

\* The clock read every half grace delay, with both timers firing on time.
ShutdownQuantum == EXIT_GRACE \div 2

AdvanceToTimers(d) ==
    /\ now + d <= lastTick + HEARTBEAT_INTERVAL
    /\ exitAt # -1 => now + d <= exitAt
    /\ now + d <= MaxAdvances * TimeStep
    /\ now' = now + d
    /\ last' = Event("advance", None, None, None, -1)
    /\ sent' = NoSent
    /\ UNCHANGED <<identityVars, shutdownVars, framingVars, discoveryVars, seenPeers, mySeq,
                   connections, peerId,
                   lastTick, lastAccepted, removedSince>>

\* Nothing runs once the process has exited.
NextShutdown ==
    \/ ~exited /\ \E s \in Sockets : Connect(s)
    \/ ~exited /\ Tick
    \/ ~exited /\ Signal
    \/ ~exited /\ Exit
    \/ ~exited /\ AdvanceToTimers(ShutdownQuantum)

SpecShutdown == Init /\ [][NextShutdown]_vars

\* --------------------------------------------------------- sockets
\* The node with its connections opening and closing and HEARTBEATs arriving
\* on them: a record leaves the registry through a close alone.
NextSockets ==
    \/ \E s \in Sockets : Connect(s)
    \/ \E s \in Sockets : Close(s)
    \/ \E s \in connections, id \in Peers, seq \in Seqs, nonce \in Nonces :
          \E sig \in SigsFor(id, seq) :
             \E hops \in HopsToTry(Heartbeat(id, seq, 0, nonce, sig)) :
                HandleHeartbeat(s, Heartbeat(id, seq, hops, nonce, sig))

SpecSockets == Init /\ [][NextSockets]_vars

\* ------------------------------------------------- a running peer
\* The node with a running hypermind node at the other end of a socket.  The
\* neighbour mined its nonce as generateIdentity does, over any hash table
\* that has a nonce to find, and signs what it emits with its own key; what
\* it writes arrives in order and is handled; every HEARTBEAT is traced.
Neighbour == "p1"
NeighbourSocket == "s1"
FarSocket == "s2"

InitPeer ==
    /\ \E row \in {r \in [Nonces -> Heads] : \E n \in Nonces : r[n] = POW_PREFIX} :
          digest = [p \in Ids \X Nonces |->
                       IF p[1] = Neighbour THEN row[p[2]] ELSE GossipDigest[p]]
    /\ identity = generateIdentity
    /\ mining = FALSE
    /\ powChecked = None
    /\ InitGossip
    /\ InitDiscovery

\* the neighbour's hello or tick HEARTBEAT, hops 0, arriving on its socket
PeerHeartbeat(s, p, seq) ==
    HandleHeartbeatTraced(s, Heartbeat(p, seq, 0, scanNonce(p, 0), signMessage(p, seq)))

\* Two nodes and the one connection between them.
NextPair ==
    \/ Connect(NeighbourSocket)
    \/ \E seq \in Seqs : PeerHeartbeat(NeighbourSocket, Neighbour, seq)

SpecPair ==
    /\ InitPeer
    /\ [][NextPair]_vars
    /\ WF_vars(Connect(NeighbourSocket))
    /\ WF_vars(\E seq \in Seqs : PeerHeartbeat(NeighbourSocket, Neighbour, seq))

\* The middle node of a line: the neighbour on one socket, the far node on
\* the other, and the neighbour emitting once both connections are up.
NextLine ==
    \/ \E s \in Sockets : Connect(s)
    \/ /\ connections = Sockets
       /\ \E seq \in Seqs : PeerHeartbeat(NeighbourSocket, Neighbour, seq)

SpecLine ==
    /\ InitPeer
    /\ [][NextLine]_vars
    /\ WF_vars(\E s \in Sockets : Connect(s))
    /\ WF_vars(/\ connections = Sockets
               /\ \E seq \in Seqs : PeerHeartbeat(NeighbourSocket, Neighbour, seq))

\* ------------------------------------------------------- staleness
\* The node on a finer clock, read every half interval, with the interval
\* timer firing on time: the clock does not pass the instant a tick is due
\* before that tick has run.  Records leave by staleness alone.
Quantum == HEARTBEAT_INTERVAL \div 2

AdvancePunctual(d) ==
    /\ now + d <= lastTick + HEARTBEAT_INTERVAL
    /\ now + d <= MaxQuanta * Quantum
    /\ now' = now + d
    /\ last' = Event("advance", None, None, None, -1)
    /\ sent' = NoSent
    /\ UNCHANGED <<identityVars, shutdownVars, framingVars, discoveryVars, seenPeers, mySeq,
                   connections, peerId,
                   lastTick, lastAccepted, removedSince>>

NextTimeout ==
    \/ \E s \in Sockets : Connect(s)
    \/ \E s \in connections, id \in Peers, seq \in Seqs, nonce \in Nonces :
          \E sig \in SigsFor(id, seq) :
             \E hops \in HopsToTry(Heartbeat(id, seq, 0, nonce, sig)) :
                HandleHeartbeat(s, Heartbeat(id, seq, hops, nonce, sig))
    \/ Tick
    \/ AdvancePunctual(Quantum)

SpecTimeout == Init /\ [][NextTimeout]_vars

\* ------------------------------------------------- generateIdentity
\* The mining loop of generateIdentity one iteration at a time, over every
\* hash table of the node's own id, and verifyPoW applied to what it returns.
InitIdentity ==
    /\ \E row \in [Nonces -> Heads] :
          digest = [p \in Ids \X Nonces |->
                       IF p[1] = MY_ID THEN row[p[2]] ELSE GossipDigest[p]]
    /\ identity = [id |-> MY_ID, nonce |-> 0]
    /\ mining = TRUE
    /\ powChecked = None
    /\ InitGossip
    /\ InitDiscovery

\* hash does not start with the prefix: nonce++
MineStep ==
    /\ mining
    /\ identity.nonce < MaxNonce
    /\ ~StartsWith(powHash(identity.id, identity.nonce), MY_POW_PREFIX)
    /\ identity' = [identity EXCEPT !.nonce = identity.nonce + 1]
    /\ UNCHANGED <<digest, mining, powChecked, gossipVars, shutdownVars, framingVars,
                   discoveryVars>>

\* hash starts with the prefix: break, and return {id, nonce}
MineDone ==
    /\ mining
    /\ StartsWith(powHash(identity.id, identity.nonce), MY_POW_PREFIX)
    /\ mining' = FALSE
    /\ UNCHANGED <<digest, identity, powChecked, gossipVars, shutdownVars, framingVars,
                   discoveryVars>>

\* a peer's PoW check of the mined identity
VerifyIdentity ==
    /\ ~mining
    /\ powChecked = None
    /\ powChecked' = IF verifyPoW(identity.id, identity.nonce) THEN "true" ELSE "false"
    /\ UNCHANGED <<digest, identity, mining, gossipVars, shutdownVars, framingVars,
                   discoveryVars>>

NextIdentity == MineStep \/ MineDone \/ VerifyIdentity

SpecIdentity == InitIdentity /\ [][NextIdentity]_vars

\* -------------------------------------------------- socket.on("data")
\* What a read hands to the handler, cut at the newlines: a whole JSON
\* object, the head or the tail of an object the transport split between
\* two reads, or text that is no JSON.  JSON.parse accepts the first only.
Piece(kind, m) == [kind |-> kind, msg |-> m]
ReadMsgs == {Heartbeat(id, seq, 0, 1, signMessage(id, seq)) : id \in Peers, seq \in Seqs}
Pieces ==
    {Piece(k, m) : k \in {"whole", "head", "tail"}, m \in ReadMsgs}
        \cup {Piece("garbage", NoMsg)}
JSONparses(piece) == piece.kind = "whole"

\* the lines of the for loop that are reached: a throw of JSON.parse leaves
\* the loop, the catch around the loop swallows it
parsedPrefixAll(lines) == Len(lines)
RECURSIVE parsedPrefix(_)
parsedPrefix(lines) ==
    IF lines = <<>> \/ ~JSONparses(Head(lines)) THEN 0
    ELSE 1 + parsedPrefix(Tail(lines))

\* The reads a byte stream can deliver on s: the tail of a split object
\* comes first in the read after the one its head ended, and only there.
\* At most one line of a read reaches handleMessage.
Chunks(s) ==
    {lines \in UNION {[1..n -> Pieces] : n \in 1..MaxLines} :
        /\ \A i \in 1..Len(lines) :
              /\ lines[i].kind = "head" => i = Len(lines)
              /\ lines[i].kind = "tail" => i = 1
        /\ (read.partial[s] # NoMsg) = (lines[1].kind = "tail")
        /\ lines[1].kind = "tail" => lines[1].msg = read.partial[s]
        /\ parsedPrefix(lines) <= 1}

OnData(s, lines) ==
    LET n == parsedPrefix(lines)
        end == lines[Len(lines)]
    IN  /\ s \in connections
        /\ IF n = 0
           THEN /\ last' = Event("data", "dropped", s, None, -1)
                /\ sent' = NoSent
                /\ UNCHANGED <<identityVars, shutdownVars, discoveryVars, seenPeers, mySeq,
                               connections, peerId, now, lastTick, lastAccepted,
                               removedSince>>
           ELSE Handle(s, lines[1].msg, FALSE)
        /\ read' = [sock |-> s, lines |-> lines, handled |-> 1..n,
                    head |-> read.partial[s],
                    partial |-> [read.partial EXCEPT
                                   ![s] = IF end.kind = "head" THEN end.msg ELSE NoMsg]]

NextRead ==
    \/ \E s \in Sockets : Connect(s)
    \/ \E s \in connections : \E lines \in Chunks(s) : OnData(s, lines)

SpecRead == Init /\ [][NextRead]_vars

\* ------------------------------------------------ address generators
\* next(): the cap stands for 0xFFFFFFFF, which no run here comes near
GenNext(g, cap) ==
    /\ gen[g].currentIndex < cap
    /\ gen' = [gen EXCEPT ![g] =
                 [@ EXCEPT !.currentIndex = @ + 1,
                           !.out = Append(@, permuted(gen[g].currentIndex,
                                                      deriveRoundKeys(seed)))]]
    /\ UNCHANGED <<seed, sweep, boot, serviceVars, identityVars, shutdownVars, framingVars,
                   gossipVars>>

\* reset()
GenReset(g) ==
    /\ gen[g].out # <<>>
    /\ gen' = [gen EXCEPT ![g] = [currentIndex |-> 0, out |-> <<>>, replay |-> gen[g].out]]
    /\ UNCHANGED <<seed, sweep, boot, serviceVars, identityVars, shutdownVars, framingVars,
                   gossipVars>>

InitFeistel ==
    /\ digest = GossipDigest
    /\ identity = generateIdentity
    /\ mining = FALSE
    /\ powChecked = None
    /\ InitGossip
    /\ seed \in Seeds
    /\ gen = [g \in Generators |-> NewGenerator]
    /\ InitScan

\* one generator, run from counter 0
NextFeistel == GenNext(1, MaxIndex)

SpecFeistel == InitFeistel /\ [][NextFeistel]_vars

\* two generators made from the same seed, each run and reset on its own
NextTwin ==
    \/ \E g \in Generators : GenNext(g, MaxTwin)
    \/ \E g \in Generators : GenReset(g)

SpecTwin == InitFeistel /\ [][NextTwin]_vars

\* --------------------------------------------------- scanIPv4Space
otherVars == <<identityVars, shutdownVars, framingVars, gossipVars, generatorVars, serviceVars>>

InFlight == {p \in ProbeIds : sweep.probe[p].phase \in {"connecting", "validating"}}
Pending(probe) == {p \in ProbeIds : probe[p].pending}

\* cleanupAllConnections calls destroy() on every truthy entry of
\* pendingSockets: on the placeholder true that is a TypeError
cleanupThrows == \E p \in ProbeIds : sweep.probe[p].sock = "true"

\* the keys counted against SCAN_CONCURRENCY: pendingPromises.size
occupied(probe) == Cardinality(Pending(probe))

\* One pass of the while body: settled promises leave both maps, then the
\* spawn loop fills pendingPromises up to SCAN_CONCURRENCY, then the check
\* of promise.resolved (never set), then the yield.
LoopIteration ==
    /\ sweep.pc = "loop" /\ ~sweep.found /\ ~sweep.timedOut
    /\ LET cleaned == [p \in ProbeIds |->
                         IF sweep.probe[p].pending /\ sweep.probe[p].settled
                         THEN [sweep.probe[p] EXCEPT !.pending = FALSE, !.sock = None]
                         ELSE sweep.probe[p]]
           room == SCAN_CONCURRENCY - occupied(cleaned)
           idle == {p \in ProbeIds : cleaned[p].phase = "idle"}
           spawn == {p \in idle : Cardinality({q \in idle : q < p}) < room}
       IN  sweep' = [sweep EXCEPT !.probe =
                        [p \in ProbeIds |->
                            IF p \in spawn
                            THEN [phase |-> "connecting", settled |-> FALSE,
                                  pending |-> TRUE, sock |-> "true", value |-> 0]
                            ELSE cleaned[p]]]
    /\ UNCHANGED <<otherVars, boot>>

\* Date.now() - startTime reaches timeout
Deadline ==
    /\ sweep.pc = "loop" /\ ~sweep.timedOut
    /\ sweep' = [sweep EXCEPT !.timedOut = TRUE]
    /\ UNCHANGED <<otherVars, boot>>

\* the while condition fails: on to Promise.allSettled
LoopExit ==
    /\ sweep.pc = "loop" /\ (sweep.found \/ sweep.timedOut)
    /\ sweep' = [sweep EXCEPT !.pc = "waiting"]
    /\ UNCHANGED <<otherVars, boot>>

\* tryConnectToPeer resolved with a socket: settled, the socket stored and
\* destroyed, validatePeerConnection started
ConnectOk(p) ==
    /\ sweep.probe[p].phase = "connecting"
    /\ sweep' = [sweep EXCEPT !.probe[p] =
                    [@ EXCEPT !.phase = "validating", !.settled = TRUE, !.sock = "socket"]]
    /\ UNCHANGED <<otherVars, boot>>

\* tryConnectToPeer resolved with null (refused or timed out)
ConnectFail(p) ==
    /\ sweep.probe[p].phase = "connecting"
    /\ sweep' = [sweep EXCEPT !.probe[p] =
                    [@ EXCEPT !.phase = "done", !.settled = TRUE, !.sock = None]]
    /\ UNCHANGED <<otherVars, boot>>

\* validatePeerConnection resolved true: found = true, cleanupAllConnections,
\* return {ip, port}; if the cleanup throws, the catch returns null
ValidateOk(p) ==
    /\ sweep.probe[p].phase = "validating"
    /\ sweep' = [sweep EXCEPT
                   !.found = TRUE,
                   !.firstValidated = IF @ = 0 /\ ~sweep.timedOut THEN p ELSE @,
                   !.probe = IF cleanupThrows
                             THEN [sweep.probe EXCEPT ![p] =
                                     [@ EXCEPT !.phase = "done", !.sock = None]]
                             ELSE [q \in ProbeIds |->
                                     IF q = p
                                     THEN [sweep.probe[p] EXCEPT !.phase = "done",
                                             !.sock = None, !.value = p]
                                     ELSE [sweep.probe[q] EXCEPT !.sock = None]]]
    /\ UNCHANGED <<otherVars, boot>>

\* validatePeerConnection resolved false
ValidateFail(p) ==
    /\ sweep.probe[p].phase = "validating"
    /\ sweep' = [sweep EXCEPT !.probe[p] = [@ EXCEPT !.phase = "done", !.sock = None]]
    /\ UNCHANGED <<otherVars, boot>>

\* Promise.allSettled over what pendingPromises still holds has resolved:
\* the first fulfilled value that is not null, in insertion order, else null
firstValue(probe) ==
    LET hits == {p \in Pending(probe) : probe[p].value # 0}
    IN  IF hits = {} THEN 0 ELSE CHOOSE p \in hits : \A q \in hits : p <= q

Return ==
    /\ sweep.pc = "waiting"
    /\ \A p \in Pending(sweep.probe) : sweep.probe[p].phase = "done"
    /\ ~cleanupThrows
    /\ sweep' = [sweep EXCEPT !.pc = "returned", !.result = firstValue(sweep.probe),
                              !.probe = [p \in ProbeIds |-> [sweep.probe[p] EXCEPT !.sock = None]]]
    /\ UNCHANGED <<otherVars, boot>>

ProbeStep ==
    \/ \E p \in ProbeIds : ConnectOk(p)
    \/ \E p \in ProbeIds : ConnectFail(p)
    \/ \E p \in ProbeIds : ValidateOk(p)
    \/ \E p \in ProbeIds : ValidateFail(p)

NextSweep ==
    \/ LoopIteration
    \/ Deadline
    \/ LoopExit
    \/ Return
    \/ \E p \in ProbeIds : ConnectOk(p)
    \/ \E p \in ProbeIds : ConnectFail(p)
    \/ \E p \in ProbeIds : ValidateOk(p)
    \/ \E p \in ProbeIds : ValidateFail(p)

SpecSweep == Init /\ [][NextSweep]_vars

\* ---------------------------------------------------- bootstrapPeers
\* the debug phase: validatePeerConnection(BOOTSTRAP_PEER_IP, ...)
BootDebug ==
    /\ boot.pc = "start"
    /\ boot' = IF ~boot.BOOTSTRAP_PEER_IP THEN [boot EXCEPT !.pc = "cache"]
               ELSE IF boot.debugValid
               THEN [boot EXCEPT !.pc = "done", !.ran = Append(@, "debug"),
                                 !.result = "debug"]
               ELSE [boot EXCEPT !.pc = "cache", !.ran = Append(@, "debug")]
    /\ UNCHANGED <<otherVars, sweep>>

\* retryCachedPeers: the first cached peer whose TCP connect succeeds
firstReachable(cached) ==
    LET hits == {i \in 1..Len(cached) : cached[i]}
    IN  IF hits = {} THEN 0 ELSE CHOOSE i \in hits : \A j \in hits : i <= j

\* phase 1, and the test of ENABLE_IPV4_SCAN after it
BootCache ==
    /\ boot.pc = "cache"
    /\ LET hit == firstReachable(boot.cached)
       IN  boot' = IF hit # 0
                   THEN [boot EXCEPT !.pc = "done", !.ran = Append(@, "cache"),
                                     !.result = "cached", !.peer = hit]
                   ELSE IF boot.ENABLE_IPV4_SCAN
                   THEN [boot EXCEPT !.pc = "scan", !.ran = Append(Append(@, "cache"), "scan")]
                   ELSE [boot EXCEPT !.pc = "done", !.ran = Append(@, "cache"),
                                     !.result = "null"]
    /\ UNCHANGED <<otherVars, sweep>>

\* phase 2 ends: scanIPv4Space has returned
BootScanned ==
    /\ boot.pc = "scan" /\ sweep.pc = "returned"
    /\ boot' = IF sweep.result # 0
               THEN [boot EXCEPT !.pc = "done", !.result = "scanned", !.peer = sweep.result]
               ELSE [boot EXCEPT !.pc = "done", !.result = "null"]
    /\ UNCHANGED <<otherVars, sweep>>

BootConfigs ==
    {NewBoot(d, v, c, e) :
        d \in BOOLEAN, v \in BOOLEAN, e \in BOOLEAN,
        c \in UNION {[1..n -> BOOLEAN] : n \in 0..MaxCached}}

InitBootstrap ==
    /\ digest = GossipDigest
    /\ identity = generateIdentity
    /\ mining = FALSE
    /\ powChecked = None
    /\ InitGossip
    /\ seed = 0
    /\ gen = [g \in Generators |-> NewGenerator]
    /\ sweep = NewSweep
    /\ boot \in {b \in BootConfigs : b.BOOTSTRAP_PEER_IP \/ ~b.debugValid}
    /\ InitService

NextBootstrap ==
    \/ BootDebug
    \/ BootCache
    \/ BootScanned
    \/ boot.pc = "scan" /\ LoopIteration
    \/ boot.pc = "scan" /\ Deadline
    \/ boot.pc = "scan" /\ LoopExit
    \/ boot.pc = "scan" /\ Return
    \/ boot.pc \in {"scan", "done"} /\ ProbeStep

SpecBootstrap == InitBootstrap /\ [][NextBootstrap]_vars

\* ------------------------------------------- the sweep's deadline
\* config/constants: parseInt(process.env.BOOTSTRAP_TIMEOUT) || 10000.
\* parseInt of an unset variable is NaN; NaN and 0 are falsy.
bootstrapTimeout(setting) ==
    IF setting = Unset \/ setting = 0 THEN DEFAULT_BOOTSTRAP_TIMEOUT ELSE setting

ScanQuantum == DEFAULT_BOOTSTRAP_TIMEOUT \div 2
Settings == {Unset} \cup {k * ScanQuantum : k \in 0..MaxSetting}

\* Date.now() - startTime < timeout, as the while loops test it
beforeDeadline == scanClock.elapsed < bootstrapTimeout(scanClock.setting)

ScanTime ==
    /\ sweep.pc = "loop" /\ beforeDeadline
    /\ scanClock' = [scanClock EXCEPT !.elapsed = @ + ScanQuantum]
    /\ UNCHANGED <<identityVars, shutdownVars, framingVars, gossipVars, generatorVars, sweep,
                   boot, hs, sse, stats, removed>>

InitScanClock ==
    /\ digest = GossipDigest
    /\ identity = generateIdentity
    /\ mining = FALSE
    /\ powChecked = None
    /\ InitGossip
    /\ seed = 0
    /\ gen = [g \in Generators |-> NewGenerator]
    /\ sweep = NewSweep
    /\ boot = NewBoot(FALSE, FALSE, <<>>, TRUE)
    /\ scanClock \in {NewScanClock(s) : s \in Settings}
    /\ hs = NewHandshake
    /\ sse = NewSse
    /\ stats = NewDiagnostics
    /\ removed = NoCleanup

\* scanIPv4Space(seed, BOOTSTRAP_TIMEOUT, identity) on its clock
NextScanClock ==
    \/ ScanTime
    \/ beforeDeadline /\ LoopIteration
    \/ ~beforeDeadline /\ Deadline
    \/ LoopExit
    \/ Return
    \/ ProbeStep

SpecScanClock == InitScanClock /\ [][NextScanClock]_vars

\* ------------------------------------------- validatePeerConnection
\* What the remote can send as one line: text that is no JSON, a JSON value
\* that validateMessage rejects, a valid message of another type, or a
\* HEARTBEAT with any nonce and any of the signatures the network can attach.
HsMsgs ==
    {Heartbeat(id, seq, 0, nonce, sig) :
        id \in Peers, seq \in Seqs, nonce \in Nonces, sig \in UNION {SigsFor(i, s) : i \in Peers, s \in Seqs}}
HsLines ==
    {[kind |-> k, msg |-> NoMsg] : k \in {"garbage", "invalid", "LEAVE"}}
        \cup {[kind |-> "HEARTBEAT", msg |-> m] : m \in HsMsgs}

\* p2p/messaging validateMessage
validateMessage(line) == line.kind # "invalid"

\* the body of the for loop for one line: skip (continue), or resolve
lineVerdict(line) ==
    IF line.kind = "garbage" THEN "skip"
    ELSE IF ~validateMessage(line) THEN "false"
    ELSE IF line.kind # "HEARTBEAT" THEN "skip"
    ELSE IF ~verifyPoW(line.msg.id, line.msg.nonce) THEN "false"
    ELSE IF line.msg.sig = NoSig THEN "false"
    ELSE IF ~verifySignature(line.msg.seq, line.msg.sig, createPublicKey(line.msg.id))
    THEN "false"
    ELSE "true"

\* resolve(v): only the first call settles the promise
resolve(h, v) == IF h.resolved = "pending" THEN [h EXCEPT !.resolved = v] ELSE h

hsFrame ==
    UNCHANGED <<identityVars, shutdownVars, framingVars, gossipVars, generatorVars, sweep,
                boot, scanClock, sse, stats, removed>>

\* the connect callback: the HEARTBEAT is written, responseTimeout armed,
\* the data, timeout, error and close handlers attached
HsConnected ==
    /\ hs.phase = "connecting"
    /\ hs' = [hs EXCEPT !.phase = "open", !.responseTimer = TRUE, !.event = "connect"]
    /\ hsFrame

\* "error" before the connect callback: the outer handler
HsConnectError ==
    /\ hs.phase = "connecting"
    /\ hs' = [resolve(hs, "false") EXCEPT !.phase = "closed", !.event = "connectError"]
    /\ hsFrame

\* "data" with one whole line
HsData(line) ==
    /\ hs.phase = "open"
    /\ LET v == lineVerdict(line)
       IN  hs' = IF v = "skip" THEN [hs EXCEPT !.line = line, !.event = "data"]
                 ELSE [resolve(hs, v) EXCEPT !.phase = "closed", !.responseTimer = FALSE,
                                             !.line = line, !.event = "data"]
    /\ hsFrame

\* responseTimeout fires
HsResponseTimeout ==
    /\ hs.phase = "open" /\ hs.responseTimer
    /\ hs' = [resolve(hs, "false") EXCEPT !.phase = "closed", !.responseTimer = FALSE,
                                          !.event = "responseTimeout"]
    /\ hsFrame

\* the socket's "timeout" after the connect callback
HsIdleTimeout ==
    /\ hs.phase = "open"
    /\ hs' = [resolve(hs, "false") EXCEPT !.phase = "closed", !.responseTimer = FALSE,
                                          !.event = "timeout"]
    /\ hsFrame

\* the socket's "error" after the connect callback
HsSocketError ==
    /\ hs.phase = "open"
    /\ hs' = [resolve(hs, "false") EXCEPT !.phase = "closed", !.responseTimer = FALSE,
                                          !.event = "error"]
    /\ hsFrame

\* the remote ends the connection: "close" runs clearTimeout(responseTimeout)
HsRemoteClose ==
    /\ hs.phase = "open"
    /\ hs' = [hs EXCEPT !.phase = "closed", !.responseTimer = FALSE, !.event = "close"]
    /\ hsFrame

\* time passes
HsElapse ==
    /\ hs' = [hs EXCEPT !.clock = 1 - @]
    /\ hsFrame

NextHandshake ==
    \/ HsConnected
    \/ HsConnectError
    \/ \E line \in HsLines : HsData(line)
    \/ HsResponseTimeout
    \/ HsIdleTimeout
    \/ HsSocketError
    \/ HsRemoteClose
    \/ HsElapse

\* The connect attempt ends, the armed timer fires, the clock runs.
SpecHandshake ==
    /\ Init
    /\ [][NextHandshake]_vars
    /\ WF_vars(HsConnected \/ HsConnectError)
    /\ WF_vars(HsResponseTimeout)
    /\ WF_vars(HsElapse)

\* ------------------------------------------------ dashboard and diagnostics
\* Time is counted in steps of half a throttle window; `since` is
\* now - lastBroadcast, which matters only up to BROADCAST_THROTTLE.
SseQuantum == BROADCAST_THROTTLE \div 2
Counts == 1..MaxCount

throttledNever(force, since) == FALSE
throttledAlways(force, since) == ~force
\* SSEManager.broadcastUpdate: the early return
throttled(force, since) == ~force /\ since < BROADCAST_THROTTLE

\* SSEManager.broadcastUpdate(data, force), data.count being s.count
broadcastUpdate(s, by, force) ==
    LET call == [by |-> by, force |-> force, pushed |-> ~throttled(force, s.since),
                 late |-> s.snapshot # s.count]
    IN  IF throttled(force, s.since) THEN [s EXCEPT !.call = call]
        ELSE [s EXCEPT !.since = 0, !.snapshot = s.count, !.call = call]

\* DiagnosticsManager
getStats(st) == st.cur
increment(st, key, amount) == [st EXCEPT !.cur[key] = @ + amount]
reset(st) == [st EXCEPT !.cur = NoStats]

\* main's broadcastUpdate closure: the snapshot is built, getStats
\* included, and handed to the SSEManager
mainBroadcast(s, by, force) ==
    /\ sse' = broadcastUpdate(s, by, force)
    /\ stats' = [stats EXCEPT !.read = getStats(stats), !.fresh = TRUE]

sseFrame ==
    UNCHANGED <<identityVars, shutdownVars, framingVars, gossipVars, generatorVars, sweep,
                boot, scanClock, hs, removed>>

\* time passes up to the next timer
SseElapse ==
    /\ sse.periodic > 0 /\ stats.due > 0
    /\ sse' = [sse EXCEPT !.since = IF @ + SseQuantum > BROADCAST_THROTTLE
                                    THEN BROADCAST_THROTTLE ELSE @ + SseQuantum,
                          !.periodic = @ - SseQuantum, !.call = NoCall]
    /\ stats' = [stats EXCEPT !.due = @ - SseQuantum, !.fresh = FALSE]
    /\ sseFrame

\* a handler changed the registry and calls broadcastUpdate()
SseChange(n) ==
    /\ n # sse.count
    /\ mainBroadcast([sse EXCEPT !.count = n], "change", FALSE)
    /\ sseFrame

\* the opt-in endpoint calls broadcastUpdate(true)
SseForce ==
    /\ mainBroadcast(sse, "force", TRUE)
    /\ sseFrame

\* the interval of startLogging, created first, runs first
DiagReset ==
    /\ stats.due = 0
    /\ stats' = [reset(stats) EXCEPT !.ended = stats.cur, !.due = DIAGNOSTICS_INTERVAL,
                                     !.fresh = FALSE]
    /\ sse' = [sse EXCEPT !.call = NoCall]
    /\ sseFrame

\* main's interval: broadcastUpdate() every DIAGNOSTICS_INTERVAL
SsePeriodic ==
    /\ sse.periodic = 0 /\ stats.due > 0
    /\ mainBroadcast([sse EXCEPT !.periodic = DIAGNOSTICS_INTERVAL], "periodic", FALSE)
    /\ sseFrame

\* a handler counts a received heartbeat
DiagIncrement ==
    /\ stats.cur.heartbeatsReceived < MaxStat
    /\ stats' = [increment(stats, "heartbeatsReceived", 1) EXCEPT !.fresh = FALSE]
    /\ sse' = [sse EXCEPT !.call = NoCall]
    /\ sseFrame

NextSse ==
    \/ SseElapse
    \/ \E n \in Counts : SseChange(n)
    \/ SseForce
    \/ DiagReset
    \/ SsePeriodic
    \/ DiagIncrement

\* Time passes and due timers fire.
SpecSse ==
    /\ Init
    /\ [][NextSse]_vars
    /\ WF_vars(SseElapse)
    /\ WF_vars(DiagReset)
    /\ WF_vars(SsePeriodic)

\* ------------------------------------------------ cleanupStalePeers
\* PeerManager.cleanupStalePeers: the loop over the entries still to visit
RECURSIVE cleanupLoop(_, _, _, _)
cleanupLoop(peers, todo, t, count) ==
    IF todo = {} THEN [peers |-> peers, removed |-> count]
    ELSE LET id == CHOOSE i \in todo : TRUE
         IN  IF isStale(peers[id], t)
             THEN cleanupLoop(MapDelete(peers, id), todo \ {id}, t, count + 1)
             ELSE cleanupLoop(peers, todo \ {id}, t, count)

cleanupStalePeers(peers, t) == cleanupLoop(peers, DOMAIN peers, t, 0)

Cleanup ==
    LET r == cleanupStalePeers(seenPeers, now)
    IN  /\ seenPeers' = r.peers
        /\ removed' = [count |-> r.removed, at |-> now]
        /\ removedSince' = [id \in Ids |-> removedSince[id] \/ (Has(id) /\ id \notin DOMAIN r.peers)]
        /\ last' = Event("cleanup", IF r.removed = 0 THEN None ELSE "removed", None, None, -1)
        /\ sent' = NoSent
        /\ UNCHANGED <<identityVars, shutdownVars, framingVars, generatorVars, sweep, boot,
                       scanClock, hs, sse, stats, mySeq, connections, peerId, now, lastTick,
                       lastAccepted>>

\* time passes, no heartbeat tick in between
AdvanceIdle(d) ==
    /\ now + d <= MaxQuanta * Quantum
    /\ now' = now + d
    /\ last' = Event("advance", None, None, None, -1)
    /\ sent' = NoSent
    /\ UNCHANGED <<identityVars, shutdownVars, framingVars, discoveryVars, seenPeers, mySeq,
                   connections, peerId, lastTick, lastAccepted, removedSince>>

NextCleanup ==
    \/ \E s \in Sockets : Connect(s)
    \/ \E s \in connections, id \in Peers, seq \in Seqs, nonce \in Nonces :
          HandleHeartbeat(s, Heartbeat(id, seq, 0, nonce, signMessage(id, seq)))
    \/ AdvanceIdle(Quantum)
    \/ Cleanup

SpecCleanup == Init /\ [][NextCleanup]_vars

\* ------------------------------------------------ relay.js relayMessage
\* data.length, in units
Lengths == 1..MaxLength

\* relayMessage(msg, sourceSocket, swarm, diagnostics) with data.length =
\* length: the counter is raised first, then the message is written to every
\* connection that is not the source socket.  The source socket is whatever
\* the caller passes, an open connection or not.
DiagRelay(sourceSocket, length) ==
    LET relayCount == Cardinality(connections) - 1
    IN  /\ stats.cur.bytesRelayed \in (0 - MaxBytes)..MaxBytes
        /\ stats' = [increment(stats, "bytesRelayed", length * relayCount)
                        EXCEPT !.len = length, !.fresh = FALSE]
        /\ sent' = [NoSent EXCEPT !.to = relayTargets(sourceSocket), !.type = "HEARTBEAT",
                                  !.relay = TRUE]
        /\ last' = Event("relay", None, sourceSocket, None, -1)
        /\ UNCHANGED <<identityVars, shutdownVars, framingVars, generatorVars, sweep, boot,
                       scanClock, hs, sse, removed, seenPeers, mySeq, connections, peerId,
                       now, lastTick, lastAccepted, removedSince>>

NextRelay ==
    \/ \E s \in Sockets : Connect(s)
    \/ \E s \in Sockets : Close(s)
    \/ \E s \in Sockets, length \in Lengths : DiagRelay(s, length)

SpecRelay == Init /\ [][NextRelay]_vars

\* ================================================================ claims
AdmittedStep == last'.kind = "HEARTBEAT" /\ last'.outcome = "admitted"
HeartbeatTookEffect ==
    /\ last'.kind = "HEARTBEAT"
    /\ (seenPeers' # seenPeers \/ peerId' # peerId \/ sent' # NoSent)

C2_RegistryBounded == Size <= MAX_PEERS

\* C3: the local node's own record is always in the registry, with seq equal
\* to the node's current sequence number.
C3_OwnRecordPresent == Has(MY_ID) /\ seenPeers[MY_ID].seq = mySeq

\* C4: a peer's record leaves the registry only through a LEAVE that the peer
\* itself originated, through the staleness sweep, or through the close of the
\* connection bound to it.
C4_RemovalOnlyByOwner ==
    [][\A p \in Peers :
          (p \in DOMAIN seenPeers /\ p \notin DOMAIN seenPeers')
             => \/ last'.kind = "LEAVE" /\ last'.id = p /\ last'.byOwner
                \/ last'.kind = "tick" /\ isStale(seenPeers[p], now)
                \/ last'.kind = "close" /\ peerId[last'.sock] = p]_vars

\* C5: a HEARTBEAT changes the registry, binds a socket or is relayed only if
\* its signature verifies over its seq under the public key of its id.
C5_SignatureRequired == [][HeartbeatTookEffect => last'.sigOK]_vars

\* C5 witness: a genuine signature checked against the cached key, admitted
\* and relayed
C5_Witness ==
    /\ last.kind = "HEARTBEAT" /\ last.outcome = "admitted"
    /\ last.sigOK /\ ~last.wasNew
    /\ seenPeers[last.id].key = createPublicKey(last.id)
    /\ sent.relay

\* C6: a HEARTBEAT changes the registry or is relayed only if the digest of
\* its id and nonce starts with the PoW prefix.
C6_PowRequired == [][HeartbeatTookEffect => last'.powOK]_vars

\* C6 witness: a new peer admitted on a nonce whose digest has the prefix
C6_Witness ==
    /\ last.kind = "HEARTBEAT" /\ last.outcome = "admitted"
    /\ last.powOK /\ last.wasNew
    /\ last.id \in DOMAIN seenPeers

\* C7: the identity that generateIdentity returns passes verifyPoW.
C7_MinedIdentityVerifies == (~mining /\ powChecked # None) => powChecked = "true"

\* C8: a message is relayed only if it was received with hops < MAX_RELAY_HOPS.
C8_RelayWithinHopLimit == sent.relay => sent.hops - 1 < MAX_RELAY_HOPS

\* C9: a relayed message goes to every open connection except the socket it
\* arrived on, and never back to that socket.
C9_SplitHorizon ==
    sent.relay => /\ last.sock \notin sent.to
                  /\ sent.to = connections \ {last.sock}

\* C9 witness: a relay with both sockets open, sent to the other one only
C9_Witness ==
    /\ sent.relay
    /\ last.sock \in connections
    /\ sent.to # {}
    /\ connections = Sockets

\* C10: a HEARTBEAT whose id is in the registry with a seq at least its own is
\* dropped by the duplicate filter, before any signature check, and changes
\* and sends nothing; so of the copies of one HEARTBEAT one is admitted.
C10_CopiesDropped ==
    [][(/\ last'.kind = "HEARTBEAT"
        /\ last'.powOK
        /\ last'.id \in DOMAIN seenPeers
        /\ last'.seq <= seenPeers[last'.id].seq)
          => /\ last'.outcome \in {"duplicateSeq", "invalidPoW"}
             /\ seenPeers' = seenPeers
             /\ peerId' = peerId
             /\ sent' = NoSent]_vars

\* C10 witness: the copy that arrives on the second connection, with the same
\* seq as the record admitted through the first, is dropped as a duplicate
C10_Witness ==
    /\ last.kind = "HEARTBEAT" /\ last.outcome = "duplicateSeq"
    /\ last.sock \in connections
    /\ \E s \in connections : s # last.sock /\ peerId[s] = last.id
    /\ last.id \in DOMAIN seenPeers
    /\ seenPeers[last.id].seq = last.seq
    /\ last.sigOK /\ last.powOK

\* C11: a peer's record is gone PEER_TIMEOUT + HEARTBEAT_INTERVAL after its
\* last accepted HEARTBEAT when ticks fire on time: a record is never older
\* than that, and one of exactly that age is there only until the tick due
\* at that instant has run.
C11_StaleGoneInTime ==
    \A p \in Peers :
       Has(p) => \/ now - seenPeers[p].lastSeen < PEER_TIMEOUT + HEARTBEAT_INTERVAL
                 \/ /\ now - seenPeers[p].lastSeen = PEER_TIMEOUT + HEARTBEAT_INTERVAL
                    /\ now - lastTick >= HEARTBEAT_INTERVAL

\* C11 witness: the tick at PEER_TIMEOUT + HEARTBEAT_INTERVAL evicts a peer
\* that was accepted in the first interval and never again
C11_Witness ==
    /\ last.kind = "tick" /\ last.outcome = "removed"
    /\ now = PEER_TIMEOUT + HEARTBEAT_INTERVAL
    /\ \E p \in Peers : ~Has(p) /\ removedSince[p] /\ lastAccepted[p] >= 0

\* C12: a LEAVE for an id in the registry removes that record and no other,
\* requests a dashboard refresh, and is relayed with hops + 1 to the other
\* connections when its hops are under MAX_RELAY_HOPS; a LEAVE for an id not
\* in the registry changes nothing and is not relayed.
C12_LeaveEffect ==
    [][last'.kind = "LEAVE" =>
          IF last'.id \in DOMAIN seenPeers
          THEN /\ DOMAIN seenPeers' = DOMAIN seenPeers \ {last'.id}
               /\ \A x \in DOMAIN seenPeers' : seenPeers'[x] = seenPeers[x]
               /\ last'.refresh
               /\ last'.hops < MAX_RELAY_HOPS
                     => sent' = [to |-> connections \ {last'.sock}, type |-> "LEAVE",
                                 id |-> last'.id, seq |-> -1, hops |-> last'.hops + 1,
                                 relay |-> TRUE, newline |-> TRUE]
          ELSE /\ seenPeers' = seenPeers
               /\ sent' = NoSent]_vars

\* C12 witness: a LEAVE for a known peer, removed, refreshed and relayed on
C12_Witness ==
    /\ last.kind = "LEAVE" /\ last.outcome = "removed"
    /\ last.id \in Peers /\ last.id \notin DOMAIN seenPeers
    /\ last.refresh
    /\ last.hops < MAX_RELAY_HOPS
    /\ sent.relay /\ sent.hops = last.hops + 1 /\ sent.to # {}

\* C13: once p's LEAVE has removed p's record, only a HEARTBEAT that p emitted
\* after the LEAVE, one with a seq above the last seq accepted before it,
\* re-creates the record.
C13_NoRevivalByOldHeartbeat ==
    [][AdmittedStep /\ removedSince[last'.id]
          => last'.seq > lastAccepted[last'.id]]_vars

\* C14: however many termination signals arrive before the exit, each
\* connection is written a single LEAVE.
C14_SingleLeave == \A s \in Sockets : leaveWrites[s] <= 1

\* C15: once shutdown has begun no heartbeat tick fires.
C15_NoTickAfterShutdown == ~(signals > 0 /\ last.kind = "tick")

\* C16: two nodes joined by one connection: the node's registry eventually
\* holds two records, its own and its neighbour's.
C16_PairConverges == <>(Size = 2 /\ Has(Neighbour) /\ connections = {NeighbourSocket})

\* C17: in the line, the neighbour's HEARTBEAT is eventually relayed by the
\* middle node to the far node with hops = 1, the only way it can reach the
\* far node's registry.
C17_LineRelays ==
    <>(/\ sent.relay /\ sent.type = "HEARTBEAT" /\ sent.id = Neighbour
       /\ sent.hops = 1 /\ sent.to = {FarSocket})

C19_PeerIdSetOnce ==
    [][\A s \in Sockets :
          (peerId[s] # None /\ last'.kind = "HEARTBEAT") => peerId'[s] = peerId[s]]_vars

\* C20: the close of a socket removes the record of the id the socket is
\* bound to, if it is bound and the record is there, and no other record;
\* otherwise it leaves the registry as it was.
C20_CloseFrame ==
    [][last'.kind = "close" =>
          IF peerId[last'.sock] # None /\ peerId[last'.sock] \in DOMAIN seenPeers
          THEN /\ DOMAIN seenPeers' = DOMAIN seenPeers \ {peerId[last'.sock]}
               /\ \A x \in DOMAIN seenPeers' : seenPeers'[x] = seenPeers[x]
          ELSE seenPeers' = seenPeers]_vars

\* C20 witness: a bound socket closed while the other is open, its peer's
\* record gone and the node's own record still there
C20_Witness ==
    /\ last.kind = "close" /\ last.outcome = "removed"
    /\ last.sock \notin connections /\ connections # {}
    /\ last.id \in Peers /\ last.id \notin DOMAIN seenPeers
    /\ Has(MY_ID)

\* C21: a tick raises the sequence number by one, sets the node's own
\* record to the new number with lastSeen now, writes one HEARTBEAT with the
\* node's id, the new number and hops 0 to every open connection, and evicts
\* exactly the records older than PEER_TIMEOUT, never the node's own; the
\* dashboard is refreshed if and only if a record was evicted.
C21_TickEffects ==
    [][last'.kind = "tick" =>
          /\ mySeq' = mySeq + 1
          /\ MY_ID \in DOMAIN seenPeers'
          /\ seenPeers'[MY_ID] = [seq |-> mySeq + 1, lastSeen |-> now, key |-> None]
          /\ sent' = [to |-> connections, type |-> "HEARTBEAT", id |-> MY_ID,
                      seq |-> mySeq + 1, hops |-> 0, relay |-> FALSE, newline |-> TRUE]
          /\ \A id \in DOMAIN seenPeers \ {MY_ID} :
                IF now - seenPeers[id].lastSeen > PEER_TIMEOUT
                THEN id \notin DOMAIN seenPeers'
                ELSE id \in DOMAIN seenPeers' /\ seenPeers'[id] = seenPeers[id]
          /\ last'.refresh = (DOMAIN seenPeers \ DOMAIN seenPeers' # {})]_vars

\* C21 witness: a tick with a connection open that evicted a record, kept
\* the node's own and refreshed the dashboard
C21_Witness ==
    /\ last.kind = "tick" /\ last.outcome = "removed" /\ last.refresh
    /\ connections # {} /\ sent.to = connections /\ sent.seq = mySeq
    /\ Has(MY_ID) /\ seenPeers[MY_ID].seq = mySeq

\* C22: every well-formed line of a read is handled, whatever malformed
\* lines the read holds before or after it.
C22_BadLineDroppedAlone ==
    \A i \in 1..Len(read.lines) : read.lines[i].kind = "whole" => i \in read.handled

\* C23: the read that brings the tail of a message whose head ended the
\* read before it on the same connection handles that message.
C23_SplitMessageHandled ==
    (read.lines # <<>> /\ read.lines[1].kind = "tail" /\ read.lines[1].msg = read.head)
        => 1 \in read.handled

\* C24: whatever the node writes to a socket ends with a newline.
C24_NewlineTerminated == sent.type # None => sent.newline

\* C25: a generator never emits the same address for two counter values.
C25_FeistelInjective ==
    \A g \in Generators :
        Cardinality({gen[g].out[i] : i \in 1..Len(gen[g].out)}) = Len(gen[g].out)

C27_FirstValidatedWins ==
    sweep.pc = "returned" =>
        (sweep.firstValidated # 0 => sweep.result = sweep.firstValidated)

\* C28: at most SCAN_CONCURRENCY probes are between the start of their TCP
\* connect and the end of their validation.
C28_ConcurrencyBound == Cardinality(InFlight) <= SCAN_CONCURRENCY

\* C29: once the sweep has ended, by a validated peer or by the deadline
\* seen at the loop head, no probe is left in flight.
C29_OutstandingCancelled ==
    (sweep.found \/ sweep.pc # "loop") => InFlight = {}

\* C30: the sweep runs only after the cached peers, only if none of them
\* connected and only if ENABLE_IPV4_SCAN; a cached peer is returned
\* without the sweep; null is returned only if no cached peer connected and
\* the sweep, if enabled, validated no peer before its deadline.
C30_PhasesInOrder ==
    /\ (boot.pc = "scan" \/ sweep # NewSweep) =>
          /\ boot.ENABLE_IPV4_SCAN
          /\ firstReachable(boot.cached) = 0
          /\ \E i, j \in 1..Len(boot.ran) :
                i < j /\ boot.ran[i] = "cache" /\ boot.ran[j] = "scan"
    /\ boot.result \in {"debug", "cached"} => sweep = NewSweep
    /\ boot.result = "cached" => boot.peer = firstReachable(boot.cached)
    /\ boot.result = "null" =>
          /\ firstReachable(boot.cached) = 0
          /\ boot.ENABLE_IPV4_SCAN => sweep.firstValidated = 0

\* C31: with BOOTSTRAP_PEER_IP set, bootstrapPeers runs the debug probe and
\* neither retries the cached peers nor starts the sweep.
C31_DebugSkipsPhases ==
    boot.BOOTSTRAP_PEER_IP =>
        /\ \A i \in 1..Len(boot.ran) : boot.ran[i] = "debug"
        /\ sweep = NewSweep

\* C37: a genuine 0-hop HEARTBEAT on a socket that is not bound yet binds
\* the socket to the sender's id, whether the HEARTBEAT is admitted or
\* dropped as a duplicate.
C37_DirectHeartbeatBinds ==
    [][(/\ last'.kind = "HEARTBEAT" /\ last'.hops = 0
        /\ last'.outcome \in {"admitted", "duplicateSeq"}
        /\ last'.powOK /\ last'.sigOK
        /\ last'.sock \in Sockets /\ peerId[last'.sock] = None)
          => peerId'[last'.sock] = last'.id]_vars

\* C32: the sweep's deadline is the value BOOTSTRAP_TIMEOUT is set to, for
\* every setting that is a non-negative integer: a probe is started only
\* while less than that has passed since the sweep began (so none with the
\* setting 0), and the sweep times out only once that much has passed.
C32_DeadlineIsTheSetting ==
    [][scanClock.setting # Unset =>
          /\ (\E p \in ProbeIds : /\ sweep.probe[p].phase = "idle"
                                  /\ sweep'.probe[p].phase = "connecting")
                => scanClock.elapsed < scanClock.setting
          /\ (~sweep.timedOut /\ sweep'.timedOut)
                => scanClock.elapsed >= scanClock.setting]_vars

\* C33: the probe resolves true only on a line that is a well-formed
\* HEARTBEAT whose (id, nonce) meets the PoW prefix and whose signature is
\* the sender's signature of its seq; a message that is not well-formed, a
\* HEARTBEAT failing PoW or signature, a socket error and a timeout resolve
\* false.
C33_ProbeTrueOnlyIfValid ==
    /\ hs.resolved = "true" =>
          /\ hs.line.kind = "HEARTBEAT"
          /\ PowHolds(hs.line.msg) /\ GenuineSig(hs.line.msg)
    /\ (hs.event = "data" /\ hs.line.kind = "invalid") => hs.resolved = "false"
    /\ (hs.event = "data" /\ hs.line.kind = "HEARTBEAT"
          /\ ~(PowHolds(hs.line.msg) /\ GenuineSig(hs.line.msg))) => hs.resolved = "false"
    /\ hs.event \in {"connectError", "responseTimeout", "timeout", "error"}
          => hs.resolved = "false"

\* C33 witness: the probe resolved true on a valid HEARTBEAT
C33_Witness ==
    /\ hs.resolved = "true" /\ hs.phase = "closed"
    /\ hs.line.kind = "HEARTBEAT" /\ PowHolds(hs.line.msg) /\ GenuineSig(hs.line.msg)

\* C34: every probe eventually resolves.
C34_ProbeResolves == <>(hs.resolved # "pending")

\* C35: a call of broadcastUpdate without force pushes only if at least
\* BROADCAST_THROTTLE has passed since the previous push, and then it does
\* push; a call with force always pushes; a suppressed call changes neither
\* lastBroadcast nor what the subscribers have.
C35_PushesThrottled ==
    [][sse'.call # NoCall =>
         /\ sse'.call.pushed <=> (sse'.call.force \/ sse.since >= BROADCAST_THROTTLE)
         /\ sse'.call.pushed => sse'.since = 0 /\ sse'.snapshot = sse'.count
         /\ ~sse'.call.pushed => sse'.since = sse.since /\ sse'.snapshot = sse.snapshot]_vars

\* C35 witness: a change inside the throttle window whose push was suppressed
C35_Witness ==
    /\ sse.call.by = "change" /\ ~sse.call.pushed
    /\ sse.since < BROADCAST_THROTTLE /\ sse.snapshot # sse.count

\* C36: what getStats returns is, for each counter, the total of the most
\* recently completed window.
C36_LastWindowValues == stats.fresh => stats.read = stats.ended

C38_CleanupExactIdempotent ==
    [][last'.kind = "cleanup" =>
         /\ DOMAIN seenPeers' =
               {id \in DOMAIN seenPeers : now - seenPeers[id].lastSeen <= PEER_TIMEOUT}
         /\ \A id \in DOMAIN seenPeers' : seenPeers'[id] = seenPeers[id]
         /\ removed'.count = Cardinality(DOMAIN seenPeers) - Cardinality(DOMAIN seenPeers')
         /\ (last.kind = "cleanup" /\ removed.at = now)
               => seenPeers' = seenPeers /\ removed'.count = 0]_vars

\* C38 witness: an eviction removed a record and kept one whose age is
\* exactly PEER_TIMEOUT
C38_Witness ==
    /\ last.kind = "cleanup" /\ removed.count > 0 /\ removed.at = now
    /\ \E id \in DOMAIN seenPeers : now - seenPeers[id].lastSeen = PEER_TIMEOUT

\* C40: no diagnostics counter is ever negative, and a relay raises
\* bytesRelayed by the message length times the number of sockets the
\* message was written to.
C40_BytesRelayedExact ==
    /\ [](stats.cur.bytesRelayed >= 0 /\ stats.cur.heartbeatsReceived >= 0)
    /\ [][last'.kind = "relay" =>
            stats'.cur.bytesRelayed - stats.cur.bytesRelayed
               = stats'.len * Cardinality(sent'.to)]_vars

====
